---- MODULE Spec2Model ----
(***************************************************************************)
(* Model of trunk/perf/hash_perf.cpp: the key generators, the two          *)
(* measurement templates measure_insert_time / measure_find_time, the      *)
(* EasyUseDenseHashMap adapter and the driver main().                      *)
(*                                                                         *)
(* uint64_t words are modelled at a reduced width of KeyBits bits, with    *)
(* all arithmetic taken modulo 2^KeyBits, so that wrap-around is reachable *)
(* within the bounds.                                                      *)
(***************************************************************************)
EXTENDS Integers, Sequences, FiniteSets, TLC

VARIABLES
    capacity,   \* main: size_t capacity (the configuration value)
    loop,       \* main: size_t loop
    skg,        \* main: sequential_key_generator skg
    rkg,        \* main: random_key_generator rkg
    genSeed,    \* the seed argument skg and rkg were constructed with
    mem,        \* main: size_t mem (the value stored)
    memSrc,     \* which measurement call stored mem last
    line,       \* which printf of main is being evaluated
    pending,    \* value arguments of that printf not yet evaluated
    argMem,     \* the value read for the printf's mem argument
    printed,    \* memory column of the last line printed
    nCalls,     \* measurement calls made so far
    returned,   \* measurement calls that have returned
    callKeys,   \* the keys each returned call drew from its generator
    pc,         \* position in the running measurement call
    call,       \* the running call: template, table kind, generator
    lcap,       \* the callee's parameter capacity
    i,          \* the callee's loop index
    map,        \* the callee's T map: the keys a find() would hit
    timer,      \* the callee's struct timespec timer
    trace,      \* events of the running call, in order
    drawn,      \* keys the running call drew, in order
    hits,       \* lookups of the running call that found their key
    result,     \* what the last call returned
    gs,         \* generator instances exercised on their own
    clock       \* time(NULL)

vars == <<capacity, loop, skg, rkg, genSeed, mem, memSrc, line, pending,
          argMem, printed, nCalls, returned, callKeys, pc, call, lcap, i,
          map, timer, trace, drawn, hits, result, gs, clock>>

mainVars == <<line, pending, argMem, printed>>
callVars == <<pc, call, lcap, i, map, timer, trace, drawn, hits, result>>
genVars  == <<gs, clock>>

\* ------------------------------------------------------------------ bounds
KeyBits == 4
MaxCap  == 2
MaxLoop == 2
MaxTime == 2
MaxOut  == 3
MaxCtor == 2
MaxMem  == 1

Mod      == 2 ^ KeyBits
Seeds    == {0, 1, Mod - 1}
Times    == 0 .. MaxTime
MemVals  == 0 .. MaxMem
Caps     == 0 .. MaxCap
Loops    == 0 .. MaxLoop

\* ------------------------------------------------------------ bit helpers
RECURSIVE XOR(_, _)
XOR(a, b) ==
    IF a = 0 THEN b
    ELSE IF b = 0 THEN a
    ELSE (((a % 2) + (b % 2)) % 2) + 2 * XOR(a \div 2, b \div 2)

ShR(x, k) == x \div (2 ^ k)
ShL(x, k) == (x * (2 ^ k)) % Mod

\* ---------------------------------------------------------- key generators
\* A key_generator object: kind is the dynamic type the virtual operator()
\* dispatches on; counter belongs to sequential_key_generator, u v w seed
\* to random_key_generator.
KgKinds == {"seq", "rnd"}

\* RAND_NR_NEXT(u, v, w): one step of the three-word recurrence; yields the
\* new words and the returned value.
RAND_NR_NEXT(u, v, w) ==
    LET half == KeyBits \div 2
        u1 == (u * 13 + 7) % Mod
        v1 == XOR(v, ShR(v, 1))
        v2 == XOR(v1, ShL(v1, 2))
        v3 == XOR(v2, ShR(v2, 1))
        w1 == (3 * (w % (2 ^ half)) + ShR(w, half)) % Mod
        x1 == XOR(u1, ShL(u1, 1))
        x2 == XOR(x1, ShR(x1, 2))
        x3 == XOR(x2, ShL(x2, 1))
    IN  [u |-> u1, v |-> v3, w |-> w1, ret |-> XOR((x3 + v3) % Mod, w1)]

\* RAND_NR_INIT(u, v, w, seed)
RAND_NR_INIT(seed) ==
    LET v0 == 5
        a  == RAND_NR_NEXT(XOR(seed, v0), v0, 1)
        b  == RAND_NR_NEXT(a.u, a.u, a.w)
        c  == RAND_NR_NEXT(b.u, b.v, b.v)
    IN  [u |-> c.u, v |-> c.v, w |-> c.w]

\* random_key_generator(seed): _seed = time(NULL) ^ seed
RandSeed(now, seed) == XOR(now % Mod, seed % Mod)

random_key_generator(now, seed) ==
    LET s  == RandSeed(now, seed)
        st == RAND_NR_INIT(s)
    IN  [kind |-> "rnd", counter |-> 0, u |-> st.u, v |-> st.v, w |-> st.w,
         seed |-> s]

\* sequential_key_generator(seed): _counter = seed
sequential_key_generator(seed) ==
    [kind |-> "seq", counter |-> seed % Mod, u |-> 0, v |-> 0, w |-> 0,
     seed |-> 0]

\* sequential operator(): return _counter++
SeqRetPreIncrement(counter) == (counter + 1) % Mod
SeqRet(counter) == counter

\* (*kg)(): the virtual call; yields the returned key and the object after.
KgCall(kg) ==
    IF kg.kind = "seq"
    THEN [ret |-> SeqRet(kg.counter),
          obj |-> [kg EXCEPT !.counter = (kg.counter + 1) % Mod]]
    ELSE LET n == RAND_NR_NEXT(kg.u, kg.v, kg.w)
         IN  [ret |-> n.ret,
              obj |-> [kg EXCEPT !.u = n.u, !.v = n.v, !.w = n.w]]

KgNew(kind, now, seed) ==
    IF kind = "seq" THEN sequential_key_generator(seed)
    ELSE random_key_generator(now, seed)

\* ------------------------------------------------------------------ tables
\* The four table kinds, in the order main measures them.
Tables == <<"sparse", "stl", "dense", "align">>

\* EasyUseDenseHashMap(): this->set_empty_key(0)
EmptyKey == 0

\* map[key] = 0.  A dense_hash_map must never be given its empty key as a
\* real key: the library either stops the program on its assertion or, with
\* assertions compiled out, writes the pair into a bucket that keeps
\* comparing equal to "empty", so that the key is never found afterwards.
UpsertOutcomes(kind, key) ==
    IF kind = "dense" /\ key = EmptyKey THEN {"abort", "lost"}
    ELSE {"stored"}

MapAfter(m, key, outcome) ==
    IF outcome = "stored" THEN m \cup {key} ELSE m

\* map.find(key): TRUE when the key is found.
Find(m, key) == key \in m

\* -------------------------------------------------------- measurement calls
\* while (capacity-- > 0)
PopulateGuardPreDecrement(cap) == ((cap - 1) % Mod) > 0
PopulateGuard(cap) == cap > 0

\* for (size_t i = 0; i < capacity; ++i)
InsertLoopGuardInclusive(k, cap) == k <= cap
InsertLoopGuard(k, cap) == k < cap

\* for (size_t i = 0; i < loop; ++i)
FindLoopGuard(k, n) == k < n

\* timer_stop(&timer) / count * 1000000000 in double arithmetic; elapsed is
\* 0 when the region took no measurable time.
Latency(elapsed, count) ==
    IF count = 0
    THEN (IF elapsed = 0 THEN "nan" ELSE "inf")
    ELSE "finite"

\* kg: the generator the running call was handed (&skg or &rkg).
Kg == IF call.dist = "seq" THEN skg ELSE rkg

CallId == <<call.line, call.dist>>

\* One iteration body "map[(*kg)()] = 0".
UpsertStep(nextPc) ==
    LET r == KgCall(Kg) IN
    /\ skg' = IF call.dist = "seq" THEN r.obj ELSE skg
    /\ rkg' = IF call.dist = "rnd" THEN r.obj ELSE rkg
    /\ drawn' = Append(drawn, r.ret)
    /\ trace' = Append(trace, "upsert")
    /\ \E outcome \in UpsertOutcomes(call.kind, r.ret) :
         /\ map' = MapAfter(map, r.ret, outcome)
         /\ pc' = IF outcome = "abort" THEN "aborted" ELSE nextPc

\* T map;
MapCtor ==
    /\ pc = "ctor"
    /\ map' = {}
    /\ trace' = Append(trace, "construct")
    /\ pc' = IF call.op = "insert" THEN "timer_start" ELSE "populate"
    /\ UNCHANGED <<capacity, loop, skg, rkg, genSeed, mem, memSrc, mainVars,
                   nCalls, returned, callKeys, call, lcap, i, timer, drawn,
                   hits, result, genVars>>

\* measure_find_time: while (capacity-- > 0) map[(*kg)()] = 0;
PopulateLoop ==
    /\ pc = "populate"
    /\ lcap' = (lcap - 1) % Mod
    /\ IF PopulateGuard(lcap)
       THEN UpsertStep("populate")
       ELSE /\ pc' = "timer_start"
            /\ UNCHANGED <<skg, rkg, drawn, trace, map>>
    /\ UNCHANGED <<capacity, loop, genSeed, mem, memSrc, mainVars, nCalls,
                   returned, callKeys, call, i, timer, hits, result, genVars>>

\* timer_start(&timer); and the loop's i = 0
TimerStart ==
    /\ pc = "timer_start"
    /\ timer' = "running"
    /\ trace' = Append(trace, "timer_start")
    /\ i' = 0
    /\ pc' = IF call.op = "insert" THEN "insert_loop" ELSE "find_loop"
    /\ UNCHANGED <<capacity, loop, skg, rkg, genSeed, mem, memSrc, mainVars,
                   nCalls, returned, callKeys, call, lcap, map, drawn, hits,
                   result, genVars>>

\* measure_insert_time: for (i < capacity) map[(*kg)()] = 0;
InsertLoop ==
    /\ pc = "insert_loop"
    /\ IF InsertLoopGuard(i, lcap)
       THEN /\ UpsertStep("insert_loop")
            /\ i' = (i + 1) % Mod
       ELSE /\ pc' = "mem"
            /\ UNCHANGED <<skg, rkg, drawn, trace, map, i>>
    /\ UNCHANGED <<capacity, loop, genSeed, mem, memSrc, mainVars, nCalls,
                   returned, callKeys, call, lcap, timer, hits, result,
                   genVars>>

\* measure_find_time: for (i < loop) map.find((*kg)());
FindLoop ==
    /\ pc = "find_loop"
    /\ IF FindLoopGuard(i, loop)
       THEN LET r == KgCall(Kg) IN
            /\ skg' = IF call.dist = "seq" THEN r.obj ELSE skg
            /\ rkg' = IF call.dist = "rnd" THEN r.obj ELSE rkg
            /\ drawn' = Append(drawn, r.ret)
            /\ trace' = Append(trace, "find")
            /\ hits' = IF Find(map, r.ret) THEN hits + 1 ELSE hits
            /\ i' = (i + 1) % Mod
            /\ pc' = "find_loop"
       ELSE /\ pc' = "mem"
            /\ UNCHANGED <<skg, rkg, drawn, trace, hits, i>>
    /\ UNCHANGED <<capacity, loop, genSeed, mem, memSrc, mainVars, nCalls,
                   returned, callKeys, call, lcap, map, timer, result,
                   genVars>>

\* *mem = current_mem_usage();  The allocator's figure, or 0 when it has none.
MemSample ==
    /\ pc = "mem"
    /\ \E m \in MemVals : mem' = m
    /\ memSrc' = [line |-> call.line, dist |-> call.dist]
    /\ trace' = Append(trace, "mem")
    /\ pc' = "timer_stop"
    /\ UNCHANGED <<capacity, loop, skg, rkg, genSeed, mainVars, nCalls,
                   returned, callKeys, call, lcap, i, map, timer, drawn,
                   hits, result, genVars>>

\* return timer_stop(&timer) / count * 1000000000;
TimerStopReturn ==
    /\ pc = "timer_stop"
    /\ timer' = "stopped"
    /\ trace' = Append(trace, "timer_stop")
    /\ \E elapsed \in {0, 1} :
         result' = Latency(elapsed, IF call.op = "insert" THEN lcap ELSE loop)
    /\ returned' = returned \cup {CallId}
    /\ callKeys' = [callKeys EXCEPT ![CallId] = drawn]
    /\ pc' = "idle"
    /\ UNCHANGED <<capacity, loop, skg, rkg, genSeed, mem, memSrc, mainVars,
                   nCalls, call, lcap, i, map, drawn, hits, genVars>>

\* -------------------------------------------------------------------- main
NumLines == 2 * Len(Tables)
Lines    == 1 .. NumLines
CallIds  == (0 .. NumLines) \X KgKinds
AllArgs  == {"seq", "rnd", "mem"}

\* The four "Insertion" printfs come first, then the four "Search" ones.
OpOf(l)   == IF l <= Len(Tables) THEN "insert" ELSE "find"
KindOf(l) == Tables[((l - 1) % Len(Tables)) + 1]

NoSrc   == [line |-> 0, dist |-> "uninit"]
NoCall  == [op |-> "none", kind |-> "none", dist |-> "seq", line |-> 0]

\* Entering measure_insert_time<T>(capacity, kg, &mem) or
\* measure_find_time<T>(capacity, loop, kg, &mem) for the current printf.
EnterCall(dist) ==
    /\ pc = "idle"
    /\ line \in Lines
    /\ dist \in pending
    /\ pending' = pending \ {dist}
    /\ call' = [op |-> OpOf(line), kind |-> KindOf(line), dist |-> dist,
                line |-> line]
    /\ lcap' = capacity
    /\ i' = 0
    /\ map' = {}
    /\ timer' = "unset"
    /\ trace' = << >>
    /\ drawn' = << >>
    /\ hits' = 0
    /\ result' = "none"
    /\ nCalls' = nCalls + 1
    /\ pc' = "ctor"
    /\ UNCHANGED <<capacity, loop, skg, rkg, genSeed, mem, memSrc, line,
                   argMem, printed, returned, callKeys, genVars>>

\* The printf argument measure_*<T>(capacity, ..., &skg, &mem)
EvalSeqArg == EnterCall("seq")

\* The printf argument measure_*<T>(capacity, ..., &rkg, &mem)
EvalRndArg == EnterCall("rnd")

\* The printf argument mem: the variable is read when the argument is
\* evaluated, in whatever position the compiler gives it among the three.
EvalMemArg ==
    /\ pc = "idle"
    /\ line \in Lines
    /\ "mem" \in pending
    /\ pending' = pending \ {"mem"}
    /\ argMem' = [val |-> mem, src |-> memSrc]
    /\ UNCHANGED <<capacity, loop, skg, rkg, genSeed, mem, memSrc, line,
                   printed, nCalls, returned, callKeys, callVars, genVars>>

\* printf(...) itself, once its arguments are evaluated.
Printf ==
    /\ pc = "idle"
    /\ line \in Lines
    /\ pending = {}
    /\ printed' = [line |-> line, mem |-> argMem.val, src |-> argMem.src]
    /\ line' = line + 1
    /\ pending' = AllArgs
    /\ UNCHANGED <<capacity, loop, skg, rkg, genSeed, mem, memSrc, argMem,
                   nCalls, returned, callKeys, callVars, genVars>>

DefaultSeed == 0

IdleCall ==
    /\ call = NoCall
    /\ lcap = 0
    /\ i = 0
    /\ map = {}
    /\ timer = "unset"
    /\ trace = << >>
    /\ drawn = << >>
    /\ hits = 0
    /\ result = "none"

NoGens ==
    /\ gs = << >>
    /\ clock = 0

\* main up to the first printf: mem is uninitialised, skg and rkg are
\* default-constructed, capacity and loop come from argv.
Init ==
    /\ capacity \in Caps
    /\ loop \in Loops
    /\ genSeed = DefaultSeed
    /\ skg = sequential_key_generator(DefaultSeed)
    /\ \E now \in Times : rkg = random_key_generator(now, DefaultSeed)
    /\ mem \in MemVals
    /\ memSrc = NoSrc
    /\ line = 1
    /\ pending = AllArgs
    /\ argMem = [val |-> 0, src |-> NoSrc]
    /\ printed = [line |-> 0, mem |-> 0, src |-> NoSrc]
    /\ nCalls = 0
    /\ returned = {}
    /\ callKeys = [c \in CallIds |-> << >>]
    /\ pc = "idle"
    /\ IdleCall
    /\ NoGens

Next ==
    \/ EvalSeqArg
    \/ EvalRndArg
    \/ EvalMemArg
    \/ Printf
    \/ MapCtor
    \/ PopulateLoop
    \/ TimerStart
    \/ InsertLoop
    \/ FindLoop
    \/ MemSample
    \/ TimerStopReturn

Spec == Init /\ [][Next]_vars

\* ------------------------------------------- one measurement call by itself
\* A single call of either template on any table kind, handed a freshly
\* constructed generator of either class.
InitCall ==
    /\ capacity \in Caps
    /\ loop \in Loops
    /\ genSeed \in Seeds
    /\ skg = sequential_key_generator(genSeed)
    /\ \E now \in Times : rkg = random_key_generator(now, genSeed)
    /\ mem \in MemVals
    /\ memSrc = NoSrc
    /\ line = 0
    /\ pending = {}
    /\ argMem = [val |-> 0, src |-> NoSrc]
    /\ printed = [line |-> 0, mem |-> 0, src |-> NoSrc]
    /\ nCalls = 1
    /\ returned = {}
    /\ callKeys = [c \in CallIds |-> << >>]
    /\ pc = "ctor"
    /\ \E op \in {"insert", "find"}, kind \in {Tables[k] : k \in DOMAIN Tables},
          dist \in KgKinds :
         call = [op |-> op, kind |-> kind, dist |-> dist, line |-> 0]
    /\ lcap = capacity
    /\ i = 0
    /\ map = {}
    /\ timer = "unset"
    /\ trace = << >>
    /\ drawn = << >>
    /\ hits = 0
    /\ result = "none"
    /\ NoGens

NextCall ==
    \/ MapCtor
    \/ PopulateLoop
    \/ TimerStart
    \/ InsertLoop
    \/ FindLoop
    \/ MemSample
    \/ TimerStopReturn

SpecCall == InitCall /\ [][NextCall]_vars

\* ------------------------------------------------- generators by themselves
Gens == 1 .. 2

\* key_generator *g = new K(seed): constructing, or constructing again.
GenConstruct(n) ==
    /\ gs[n].ctors < MaxCtor
    /\ \E seed \in Seeds :
         gs' = [gs EXCEPT ![n] = [obj   |-> KgNew(gs[n].obj.kind, clock, seed),
                                  arg   |-> seed,
                                  out   |-> << >>,
                                  ctors |-> gs[n].ctors + 1]]
    /\ UNCHANGED clock

\* (*g)()
GenCall(n) ==
    /\ Len(gs[n].out) < MaxOut
    /\ LET r == KgCall(gs[n].obj) IN
         gs' = [gs EXCEPT ![n].obj = r.obj, ![n].out = Append(@, r.ret)]
    /\ UNCHANGED clock

\* time(NULL) moves on.
Tick ==
    /\ clock < MaxTime
    /\ clock' = clock + 1
    /\ UNCHANGED gs

Construct == \E n \in Gens : GenConstruct(n)
Generate  == \E n \in Gens : GenCall(n)

InitGen ==
    /\ capacity = 0
    /\ loop = 0
    /\ genSeed = DefaultSeed
    /\ skg = sequential_key_generator(DefaultSeed)
    /\ rkg = random_key_generator(0, DefaultSeed)
    /\ mem = 0
    /\ memSrc = NoSrc
    /\ line = 0
    /\ pending = {}
    /\ argMem = [val |-> 0, src |-> NoSrc]
    /\ printed = [line |-> 0, mem |-> 0, src |-> NoSrc]
    /\ nCalls = 0
    /\ returned = {}
    /\ callKeys = [c \in CallIds |-> << >>]
    /\ pc = "idle"
    /\ IdleCall
    /\ clock = 0
    /\ \E k \in KgKinds, seed \in [Gens -> Seeds] :
         gs = [n \in Gens |-> [obj   |-> KgNew(k, clock, seed[n]),
                               arg   |-> seed[n],
                               out   |-> << >>,
                               ctors |-> 1]]

NextGen ==
    \/ /\ Construct
       /\ UNCHANGED <<capacity, loop, skg, rkg, genSeed, mem, memSrc,
                      mainVars, nCalls, returned, callKeys, callVars>>
    \/ /\ Generate
       /\ UNCHANGED <<capacity, loop, skg, rkg, genSeed, mem, memSrc,
                      mainVars, nCalls, returned, callKeys, callVars>>
    \/ /\ Tick
       /\ UNCHANGED <<capacity, loop, skg, rkg, genSeed, mem, memSrc,
                      mainVars, nCalls, returned, callKeys, callVars>>

SpecGen == InitGen /\ [][NextGen]_vars

\* ================================================================== claims
Count(ev) == Cardinality({k \in DOMAIN trace : trace[k] = ev})
At(ev)    == {k \in DOMAIN trace : trace[k] = ev}
Returned  == pc = "idle" /\ CallId \in returned
Min(a, b) == IF a <= b THEN a ELSE b

\* The division denominator of the running call.
Denominator == IF call.op = "insert" THEN capacity ELSE loop

\* C1: measure_find_time with a fresh sequential generator of seed s
\* (s + C + L < 2^w): once population is over the table holds exactly
\* s .. s+C-1, the lookups query s+C, s+C+1, ... in turn, L of them in all,
\* and none of them hits.
C1_FindSequentialAllMisses ==
    (/\ call.op = "find"
     /\ call.dist = "seq"
     /\ genSeed + capacity + loop < Mod
     /\ pc \in {"timer_start", "find_loop", "mem", "timer_stop", "idle"})
    => /\ map = {genSeed + k : k \in 0 .. (capacity - 1)}
       /\ Len(drawn) >= capacity
       /\ \A j \in 1 .. (Len(drawn) - capacity) :
            drawn[capacity + j] = genSeed + capacity + j - 1
       /\ hits = 0
       /\ (pc \in {"mem", "timer_stop", "idle"}
             => Len(drawn) = capacity + loop)

C3_ZeroCountIsInvalidConfiguration ==
    (call.op \in {"insert", "find"} /\ Denominator = 0)
    => /\ timer = "unset"
       /\ Count("timer_start") = 0
       /\ (Returned => result = "InvalidConfiguration")

\* C4: measure_find_time with capacity 0 and L >= 1 does no upsert, keeps
\* the table empty, never hits, is not stopped, and returns a finite latency
\* after exactly L draws and L lookups.
C4_FindOnEmptyTable ==
    (call.op = "find" /\ capacity = 0 /\ loop >= 1)
    => /\ Count("upsert") = 0
       /\ map = {}
       /\ hits = 0
       /\ pc # "aborted"
       /\ Len(drawn) = Count("find")
       /\ Count("find") <= loop
       /\ (Returned
             => /\ Len(drawn) = loop
                /\ Count("find") = loop
                /\ result = "finite")

C4_Witness ==
    /\ call.op = "find"
    /\ capacity = 0
    /\ loop >= 2
    /\ Returned
    /\ Count("find") = loop
    /\ hits = 0

\* C5: two random_key_generator objects constructed with the same nonzero
\* seed hand out the same values call for call, whenever each was
\* constructed; a nonzero seed is used as given, the time being mixed in
\* only for seed zero.
C5_RandomSameSeedSameStream ==
    \A a \in DOMAIN gs :
        (gs[a].obj.kind = "rnd" /\ gs[a].arg # 0)
        => /\ gs[a].obj.seed = gs[a].arg
           /\ \A b \in DOMAIN gs :
                (gs[b].obj.kind = "rnd" /\ gs[b].arg = gs[a].arg)
                => \A n \in 1 .. Min(Len(gs[a].out), Len(gs[b].out)) :
                     gs[a].out[n] = gs[b].out[n]

\* C6: the n-th call (from 0) of a sequential_key_generator constructed with
\* seed s returns s + n while s + n < 2^w; two such generators of the same
\* seed agree call for call; one constructed again starts over at its seed.
C6_SequentialNthIsSeedPlusN ==
    \A a \in DOMAIN gs :
        gs[a].obj.kind = "seq"
        => /\ \A n \in 1 .. Len(gs[a].out) :
                gs[a].arg + n - 1 < Mod => gs[a].out[n] = gs[a].arg + n - 1
           /\ \A b \in DOMAIN gs :
                (gs[b].obj.kind = "seq" /\ gs[b].arg = gs[a].arg)
                => \A n \in 1 .. Min(Len(gs[a].out), Len(gs[b].out)) :
                     gs[a].out[n] = gs[b].out[n]

C6_Witness ==
    /\ DOMAIN gs = Gens
    /\ gs[1].obj.kind = "seq"
    /\ gs[2].obj.kind = "seq"
    /\ gs[1].arg = gs[2].arg
    /\ gs[1].ctors = 1
    /\ Len(gs[1].out) >= 3
    /\ gs[2].ctors >= 2
    /\ Len(gs[2].out) >= 1
    /\ gs[2].out[1] = gs[2].arg

\* C7: main makes 16 measurement calls, and the keys a call feeds its table
\* depend on its own arguments only: calls of the same template with the
\* same key distribution draw the same keys wherever they come in the run.
C7_SixteenIndependentCalls ==
    /\ (line > NumLines => nCalls = 2 * NumLines)
    /\ \A a \in returned, b \in returned :
         (OpOf(a[1]) = OpOf(b[1]) /\ a[2] = b[2])
         => callKeys[a] = callKeys[b]

\* C8: a returned call's events are in the order construct, timer start,
\* loop operations, timer stop, memory sample.
C8_MemorySampledAfterTimerStop ==
    Returned
    => /\ trace[1] = "construct"
       /\ \A a \in At("timer_start"), b \in At("timer_stop"), m \in At("mem") :
            /\ a < b
            /\ b < m
            /\ \A k \in At(IF call.op = "insert" THEN "upsert" ELSE "find") :
                 a < k /\ k < b

\* C9: the memory figure on every line main prints is the one stored by
\* that line's random-workload call.
C9_PrintedMemoryIsRandomSample ==
    printed.line \in Lines
    => printed.src = [line |-> printed.line, dist |-> "rnd"]

\* C10: in a run of main whose sequential draws do not wrap, key 0 never
\* reaches a dense table's upsert, and whichever call draws key 0 from skg
\* is a sparse-table insert measurement.
TotalSeqDraws == Len(Tables) * capacity + Len(Tables) * (capacity + loop)

\* Upserts among the keys a call drew: all of them for an insert call, the
\* first capacity for a find call.
UpsertKeys(op, keys) ==
    {keys[k] : k \in {n \in DOMAIN keys : op = "insert" \/ n <= capacity}}

KeysOf(id) ==
    IF pc # "idle" /\ id = CallId THEN drawn ELSE callKeys[id]

C10_SequentialZeroOnlyToSparseInsert ==
    TotalSeqDraws < Mod
    => \A l \in Lines :
         LET keys == KeysOf(<<l, "seq">>) IN
         /\ (KindOf(l) = "dense" => EmptyKey \notin UpsertKeys(OpOf(l), keys))
         /\ (\E k \in DOMAIN keys : keys[k] = EmptyKey)
              => (KindOf(l) = "sparse" /\ OpOf(l) = "insert")

====
